---------------------------- MODULE Spec2Model ----------------------------
(***************************************************************************)
(* DrawingEngine of canvas-tool (src/drawing.js): the drawing surface, the *)
(* shape-preview scratch canvas, the gesture handlers and the undo/redo    *)
(* snapshot stacks.                                                        *)
(*                                                                         *)
(* The canvas is one row of cells (canvas.height = 1), so a point is the   *)
(* index of the cell it falls in and every y coordinate is 0.  A pixel is  *)
(* a colour string; Transparent is what a canvas holds after its width is  *)
(* assigned.  The 2D context is the record ctx: its stroke and fill style, *)
(* its line width and its current path (the cells the path covers and the *)
(* path's last point).                                                     *)
(***************************************************************************)
EXTENDS Integers, Sequences, FiniteSets, TLC

\* Bounds of the model.
\* this.maxUndoSteps is 50 in the source (drawing.js:25); the stacks are
\* checked with a small maximum so that eviction happens within the bounds.
maxUndoSteps == 3
\* Longest run of operations explored under Spec, and longest run of gesture
\* events, clear() and setter calls before the undo() calls of SpecRoundTrip.
MaxSteps == 5

\* Layout widths (canvas.offsetWidth, resize(width)) and the cells an event's
\* coordinates map to.
Widths == {1, 2}
Coords == {1, 2}

Transparent == "rgba(0,0,0,0)"
Background == "#ffffff"
ValidColors == {"#000000", "#ff0000"}
ColorInputs == ValidColors \cup {"notacolor"}
\* Not-a-number (what parseInt returns for a non-numeric string), encoded as
\* an integer no caller passes as a width.
NaN == -1
WidthInputs == {-5, 0, 5, 999, NaN}
validTools == {"freehand", "rectangle", "circle", "line"}
ToolInputs == validTools \cup {"hexagon"}
Undefined == "undefined"

VARIABLES
  canvas,        \* this.canvas: its pixels, Len(canvas) = canvas.width
  tempCanvas,    \* this.tempCanvas: the scratch pixels
  ctx,           \* this.ctx: strokeStyle, lineWidth, fillStyle, path
  currentTool, currentColor, strokeWidth,
  isDrawing, startX, lastX,
  undoStack, redoStack,
  listeners,     \* the functions attached to the canvas and the window
  returned,      \* what the last call returned
  steps,         \* operations performed so far
  lastOp,        \* the last operation and its argument
  gest,          \* history of the current gesture (see Track)
  cleared,       \* the canvas just before clear(), while clear() is the last operation
  commits,       \* actions committed since construction, counted up to maxUndoSteps
  initial,       \* the snapshot the constructor pushed
  destroyed,     \* destroy() has been called
  resized,       \* the canvas was resized since a stack last changed
  phase, nActs, nCalls, ref   \* the undo/redo round trip (SpecRoundTrip)

engineVars == <<canvas, tempCanvas, ctx, currentTool, currentColor, strokeWidth,
                isDrawing, startX, lastX, undoStack, redoStack, listeners>>
historyVars == <<returned, steps, lastOp, gest, cleared, commits, initial, destroyed,
                 resized>>
scenarioVars == <<phase, nActs, nCalls, ref>>
vars == <<engineVars, historyVars, scenarioVars>>

---------------------------------------------------------------------------
(* The rendering backend, as the engine uses it. *)

Min(a, b) == IF a < b THEN a ELSE b
Max(a, b) == IF a > b THEN a ELSE b
Abs(a) == IF a < 0 THEN -a ELSE a

\* Math.sqrt on the perfect squares the row geometry produces.
Sqrt(n) == CHOOSE r \in 0..n : r * r = n

\* The cells a straight segment between two points passes through.
Segment(a, b) == Min(a, b)..Max(a, b)

Blank(w, colour) == [i \in 1..w |-> colour]

EmptyPath == [cells |-> {}, cur |-> 0]

\* The state of a context whose canvas has just been given a width.
DefaultCtx ==
  [strokeStyle |-> "#000000", lineWidth |-> 1, fillStyle |-> "#000000",
   path |-> EmptyPath]

\* ctx.strokeStyle = v: a string that is no colour is ignored.
SetStrokeStyle(c, v) ==
  IF v \in ValidColors \cup {Background} THEN [c EXCEPT !.strokeStyle = v] ELSE c

\* ctx.lineWidth = v: zero, negative and non-finite values are ignored.
SetLineWidth(c, v) ==
  IF v \in Nat \ {0} THEN [c EXCEPT !.lineWidth = v] ELSE c

\* ctx.fillRect(0, 0, canvas.width, canvas.height)
fillRect(pixels, c) == [i \in 1..Len(pixels) |-> c.fillStyle]

\* ctx.clearRect(0, 0, canvas.width, canvas.height)
clearRect(pixels) == [i \in 1..Len(pixels) |-> Transparent]

\* ctx.drawImage(image, 0, 0): source-over compositing of opaque pixels.
drawImage(pixels, image) ==
  [i \in 1..Len(pixels) |->
     IF i <= Len(image) /\ image[i] # Transparent THEN image[i] ELSE pixels[i]]

\* ctx.getImageData(0, 0, canvas.width, canvas.height)
getImageData(pixels) == pixels

\* ctx.putImageData(imageData, 0, 0): the image's rectangle is overwritten,
\* pixels outside it are left as they are.
putImageData(pixels, imageData) ==
  [i \in 1..Len(pixels) |-> IF i <= Len(imageData) THEN imageData[i] ELSE pixels[i]]

beginPath(c) == [c EXCEPT !.path = EmptyPath]

moveTo(c, x) == [c EXCEPT !.path.cur = x]

lineTo(c, x) ==
  IF c.path.cur = 0
    THEN moveTo(c, x)
    ELSE [c EXCEPT !.path = [cells |-> @.cells \cup Segment(@.cur, x), cur |-> x]]

\* ctx.rect(x, y, w, h) on the row y: the edge from x to x + w.
rect(c, x, w) ==
  [c EXCEPT !.path = [cells |-> @.cells \cup Segment(x, x + w), cur |-> x]]

\* ctx.arc(x, y, radius, 0, 2 * Math.PI) on the row y: the circle crosses the
\* row at x - radius and x + radius, and the arc starts and ends at x + radius.
arc(c, x, radius) ==
  [c EXCEPT !.path =
     [cells |-> @.cells \cup {x - radius, x + radius}
                  \cup (IF @.cur = 0 THEN {} ELSE Segment(@.cur, x + radius)),
      cur |-> x + radius]]

\* ctx.stroke(): the cells of the current path take the stroke style.
stroke(pixels, c) ==
  [i \in 1..Len(pixels) |-> IF i \in c.path.cells THEN c.strokeStyle ELSE pixels[i]]

---------------------------------------------------------------------------
(* DrawingEngine *)

\* The functions addEventListener was given: each bind() makes a new one.
BoundHandlers ==
  {"bound _handleStart", "bound _handleMove", "bound _handleEnd", "bound _handleResize"}

\* The functions destroy() hands to removeEventListener.
UnboundHandlers == {"_handleStart", "_handleMove", "_handleEnd", "_handleResize"}

_applyContextSettings(c) ==
  SetLineWidth(SetStrokeStyle(c, currentColor), strokeWidth)

\* Mutant of SavedStack: the length check is missing, nothing is ever evicted.
SavedStack_noEviction(stack, pixels) == Append(stack, getImageData(pixels))

\* Mutant of SavedStack: >= for >, the oldest snapshot is evicted one push early.
SavedStack_evictsEarly(stack, pixels) ==
  LET pushed == Append(stack, getImageData(pixels))
  IN  IF Len(pushed) >= maxUndoSteps THEN Tail(pushed) ELSE pushed

\* The undo stack after _saveState() pushes the canvas content `pixels`.
SavedStack(stack, pixels) ==
  LET pushed == Append(stack, getImageData(pixels))
  IN  IF Len(pushed) > maxUndoSteps THEN Tail(pushed) ELSE pushed

\* Mutant of _saveState: the redo stack is not cleared.
_saveState_keepsRedo(pixels) ==
  /\ undoStack' =
       (LET pushed == Append(undoStack, getImageData(pixels))
        IN  IF Len(pushed) > maxUndoSteps THEN Tail(pushed) ELSE pushed)
  /\ UNCHANGED redoStack

_saveState(pixels) ==
  /\ undoStack' = SavedStack(undoStack, pixels)
  /\ redoStack' = <<>>

\* _restoreState(imageData): the canvas and the context afterwards.
_restoreState(imageData) ==
  /\ canvas' = putImageData(canvas, imageData)
  /\ ctx' = _applyContextSettings(ctx)

_drawShapePath(c, x1, x2) ==
  CASE currentTool = "rectangle" -> rect(c, x1, x2 - x1)
    [] currentTool = "circle" -> arc(c, x1, Sqrt((x2 - x1) * (x2 - x1)))
    [] currentTool = "line" -> lineTo(moveTo(c, x1), x2)
    [] OTHER -> c

\* The context and the canvas after _drawShapePreview(x).
_drawShapePreview(x) ==
  LET restored == drawImage(clearRect(canvas), tempCanvas)
      c == _drawShapePath(beginPath(ctx), startX, x)
  IN  /\ ctx' = c
      /\ canvas' = stroke(restored, c)

\* Mutant of _drawShape: the canvas is not restored from the scratch canvas
\* before the final shape is drawn.
_drawShape_noRestore(x) ==
  LET c == _drawShapePath(beginPath(ctx), startX, x)
  IN  /\ ctx' = c
      /\ canvas' = stroke(canvas, c)

\* The context and the canvas after _drawShape(x).
_drawShape(x) ==
  LET restored == drawImage(clearRect(canvas), tempCanvas)
      c == _drawShapePath(beginPath(ctx), startX, x)
  IN  /\ ctx' = c
      /\ canvas' = stroke(restored, c)

_drawFreehand(x) ==
  LET c == lineTo(ctx, x)
  IN  /\ ctx' = c
      /\ canvas' = stroke(canvas, c)

\* Mutant of _handleStart: a snapshot is saved when the gesture starts.
_handleStart_saves(x) ==
  /\ isDrawing' = TRUE
  /\ startX' = x
  /\ lastX' = x
  /\ IF currentTool = "freehand"
       THEN /\ ctx' = moveTo(beginPath(ctx), x)
            /\ UNCHANGED tempCanvas
       ELSE /\ tempCanvas' = drawImage(clearRect(tempCanvas), canvas)
            /\ UNCHANGED ctx
  /\ _saveState(canvas)
  /\ UNCHANGED <<canvas, currentTool, currentColor, strokeWidth, listeners>>

_handleStart(x) ==
  /\ isDrawing' = TRUE
  /\ startX' = x
  /\ lastX' = x
  /\ IF currentTool = "freehand"
       THEN /\ ctx' = moveTo(beginPath(ctx), x)
            /\ UNCHANGED tempCanvas
       ELSE /\ tempCanvas' = drawImage(clearRect(tempCanvas), canvas)
            /\ UNCHANGED ctx
  /\ UNCHANGED <<canvas, currentTool, currentColor, strokeWidth, undoStack,
                 redoStack, listeners>>

_handleMove(x) ==
  IF ~isDrawing
    THEN UNCHANGED engineVars
    ELSE /\ IF currentTool = "freehand" THEN _drawFreehand(x) ELSE _drawShapePreview(x)
         /\ lastX' = x
         /\ UNCHANGED <<tempCanvas, currentTool, currentColor, strokeWidth,
                        isDrawing, startX, undoStack, redoStack, listeners>>

\* Mutant of _handleEnd: the isDrawing guard is missing.
_handleEnd_noGuard(x) ==
  /\ IF currentTool # "freehand" THEN _drawShape(x) ELSE UNCHANGED <<canvas, ctx>>
  /\ isDrawing' = FALSE
  /\ _saveState(canvas')
  /\ UNCHANGED <<tempCanvas, currentTool, currentColor, strokeWidth,
                 startX, lastX, listeners>>

_handleEnd(x) ==
  IF ~isDrawing
    THEN UNCHANGED engineVars
    ELSE /\ IF currentTool # "freehand" THEN _drawShape(x) ELSE UNCHANGED <<canvas, ctx>>
         /\ isDrawing' = FALSE
         /\ _saveState(canvas')
         /\ UNCHANGED <<tempCanvas, currentTool, currentColor, strokeWidth,
                        startX, lastX, listeners>>

\* Both _handleResize (w = canvas.offsetWidth) and resize(w, h).
Resized(w) ==
  LET imageData == getImageData(canvas)
  IN  /\ canvas' = putImageData(Blank(w, Transparent), imageData)
      /\ tempCanvas' = Blank(w, Transparent)
      /\ ctx' = _applyContextSettings(DefaultCtx)
      /\ UNCHANGED <<currentTool, currentColor, strokeWidth, isDrawing, startX,
                     lastX, undoStack, redoStack, listeners>>

_handleResize(offsetWidth) == Resized(offsetWidth)

resize(width) == Resized(width)

\* Mutant of setTool: the tool is stored without the validTools test.
setTool_noCheck(tool) ==
  /\ currentTool' = tool
  /\ UNCHANGED <<canvas, tempCanvas, ctx, currentColor, strokeWidth, isDrawing,
                 startX, lastX, undoStack, redoStack, listeners>>

setTool(tool) ==
  /\ currentTool' = IF tool \in validTools THEN tool ELSE currentTool
  /\ UNCHANGED <<canvas, tempCanvas, ctx, currentColor, strokeWidth, isDrawing,
                 startX, lastX, undoStack, redoStack, listeners>>

setColor(color) ==
  /\ currentColor' = color
  /\ ctx' = SetStrokeStyle(ctx, color)
  /\ UNCHANGED <<canvas, tempCanvas, currentTool, strokeWidth, isDrawing,
                 startX, lastX, undoStack, redoStack, listeners>>

\* Math.min and Math.max return NaN when an argument is NaN.
MathMin(a, b) == IF a = NaN \/ b = NaN THEN NaN ELSE Min(a, b)
MathMax(a, b) == IF a = NaN \/ b = NaN THEN NaN ELSE Max(a, b)

setStrokeWidth(width) ==
  /\ strokeWidth' = MathMax(1, MathMin(width, 50))
  /\ ctx' = SetLineWidth(ctx, strokeWidth')
  /\ UNCHANGED <<canvas, tempCanvas, currentTool, currentColor, isDrawing,
                 startX, lastX, undoStack, redoStack, listeners>>

\* Mutant of undo: the top snapshot is restored before the guard is tested.
undo_restoresFirst ==
  IF Len(undoStack) <= 1
    THEN /\ returned' = "false"
         /\ IF undoStack = <<>>
              THEN UNCHANGED <<canvas, ctx>>
              ELSE _restoreState(undoStack[Len(undoStack)])
         /\ UNCHANGED <<tempCanvas, currentTool, currentColor, strokeWidth, isDrawing,
                        startX, lastX, undoStack, redoStack, listeners>>
    ELSE LET currentState == undoStack[Len(undoStack)]
             popped == SubSeq(undoStack, 1, Len(undoStack) - 1)
             previousState == popped[Len(popped)]
         IN  /\ undoStack' = popped
             /\ redoStack' = Append(redoStack, currentState)
             /\ _restoreState(previousState)
             /\ returned' = "true"
             /\ UNCHANGED <<tempCanvas, currentTool, currentColor, strokeWidth,
                            isDrawing, startX, lastX, listeners>>

\* Mutant of undo: the guard tests for an empty stack (length <= 0), so the
\* last snapshot is popped too and there is nothing left to restore.
undo_guardZero ==
  IF Len(undoStack) <= 0
    THEN /\ returned' = "false"
         /\ UNCHANGED engineVars
    ELSE LET currentState == undoStack[Len(undoStack)]
             popped == SubSeq(undoStack, 1, Len(undoStack) - 1)
         IN  /\ undoStack' = popped
             /\ redoStack' = Append(redoStack, currentState)
             /\ IF popped = <<>>
                  THEN UNCHANGED <<canvas, ctx>>
                  ELSE _restoreState(popped[Len(popped)])
             /\ returned' = "true"
             /\ UNCHANGED <<tempCanvas, currentTool, currentColor, strokeWidth,
                            isDrawing, startX, lastX, listeners>>

\* Mutant of undo: the popped snapshot is not pushed onto the redo stack.
undo_dropsCurrent ==
  IF Len(undoStack) <= 1
    THEN /\ returned' = "false"
         /\ UNCHANGED engineVars
    ELSE LET popped == SubSeq(undoStack, 1, Len(undoStack) - 1)
             previousState == popped[Len(popped)]
         IN  /\ undoStack' = popped
             /\ _restoreState(previousState)
             /\ returned' = "true"
             /\ UNCHANGED <<tempCanvas, currentTool, currentColor, strokeWidth,
                            isDrawing, startX, lastX, redoStack, listeners>>

undo ==
  IF Len(undoStack) <= 1
    THEN /\ returned' = "false"
         /\ UNCHANGED engineVars
    ELSE LET currentState == undoStack[Len(undoStack)]
             popped == SubSeq(undoStack, 1, Len(undoStack) - 1)
             previousState == popped[Len(popped)]
         IN  /\ undoStack' = popped
             /\ redoStack' = Append(redoStack, currentState)
             /\ _restoreState(previousState)
             /\ returned' = "true"
             /\ UNCHANGED <<tempCanvas, currentTool, currentColor, strokeWidth,
                            isDrawing, startX, lastX, listeners>>

\* Mutant of redo: shift() for pop(), the oldest undone snapshot comes back first.
redo_takesOldest ==
  IF Len(redoStack) = 0
    THEN /\ returned' = "false"
         /\ UNCHANGED engineVars
    ELSE LET state == Head(redoStack)
         IN  /\ redoStack' = Tail(redoStack)
             /\ undoStack' = Append(undoStack, state)
             /\ _restoreState(state)
             /\ returned' = "true"
             /\ UNCHANGED <<tempCanvas, currentTool, currentColor, strokeWidth,
                            isDrawing, startX, lastX, listeners>>

\* Mutant of redo: the guard tests length <= 1, so the last undone snapshot
\* is never redone.
redo_guardOne ==
  IF Len(redoStack) <= 1
    THEN /\ returned' = "false"
         /\ UNCHANGED engineVars
    ELSE LET state == redoStack[Len(redoStack)]
         IN  /\ redoStack' = SubSeq(redoStack, 1, Len(redoStack) - 1)
             /\ undoStack' = Append(undoStack, state)
             /\ _restoreState(state)
             /\ returned' = "true"
             /\ UNCHANGED <<tempCanvas, currentTool, currentColor, strokeWidth,
                            isDrawing, startX, lastX, listeners>>

redo ==
  IF Len(redoStack) = 0
    THEN /\ returned' = "false"
         /\ UNCHANGED engineVars
    ELSE LET state == redoStack[Len(redoStack)]
         IN  /\ redoStack' = SubSeq(redoStack, 1, Len(redoStack) - 1)
             /\ undoStack' = Append(undoStack, state)
             /\ _restoreState(state)
             /\ returned' = "true"
             /\ UNCHANGED <<tempCanvas, currentTool, currentColor, strokeWidth,
                            isDrawing, startX, lastX, listeners>>

\* Mutant of clear: no snapshot is saved after the fill.
clear_noSave ==
  LET filling == [ctx EXCEPT !.fillStyle = "#ffffff"]
      filled == fillRect(canvas, filling)
  IN  /\ canvas' = filled
      /\ ctx' = _applyContextSettings(filling)
      /\ UNCHANGED <<tempCanvas, currentTool, currentColor, strokeWidth,
                     isDrawing, startX, lastX, undoStack, redoStack, listeners>>

clear ==
  LET filling == [ctx EXCEPT !.fillStyle = "#ffffff"]
      filled == fillRect(canvas, filling)
  IN  /\ canvas' = filled
      /\ ctx' = _applyContextSettings(filling)
      /\ _saveState(filled)
      /\ UNCHANGED <<tempCanvas, currentTool, currentColor, strokeWidth,
                     isDrawing, startX, lastX, listeners>>

\* Mutant of exportImage: the export ends the gesture in progress.
exportImage_endsGesture ==
  /\ returned' \in {"data:image/png", "throws"}
  /\ isDrawing' = FALSE
  /\ UNCHANGED <<canvas, tempCanvas, ctx, currentTool, currentColor, strokeWidth,
                 startX, lastX, undoStack, redoStack, listeners>>

\* canvas.toDataURL(format) returns the encoding or throws.
exportImage ==
  /\ returned' \in {"data:image/png", "throws"}
  /\ UNCHANGED engineVars

destroy ==
  /\ listeners' = listeners \ UnboundHandlers
  /\ undoStack' = <<>>
  /\ redoStack' = <<>>
  /\ UNCHANGED <<canvas, tempCanvas, ctx, currentTool, currentColor,
                 strokeWidth, isDrawing, startX, lastX>>

\* The engine once the constructor has returned, on a canvas laid out w wide.
Constructed(w) ==
  LET c0 == [DefaultCtx EXCEPT !.strokeStyle = "#000000", !.lineWidth = 2,
                               !.fillStyle = "#ffffff"]
      filled == fillRect(Blank(w, Transparent), c0)
  IN  /\ canvas = filled
      /\ tempCanvas = Blank(w, Transparent)
      /\ ctx = c0
      /\ currentTool = "freehand"
      /\ currentColor = "#000000"
      /\ strokeWidth = 2
      /\ isDrawing = FALSE
      /\ startX = 0
      /\ lastX = 0
      /\ undoStack = SavedStack(<<>>, filled)
      /\ redoStack = <<>>
      /\ listeners = BoundHandlers

---------------------------------------------------------------------------
(* History of a run, kept beside the engine to state its properties. *)

NoGesture == [phase |-> "none", tool |-> "", base |-> <<>>, pure |-> FALSE, moves |-> 0]

\* gest follows the gesture opened by the most recent Start: the tool and the
\* canvas content at that Start, the number of Moves processed since (counted
\* up to 2), and whether the gesture is pure: its Start arrived while no
\* gesture was active and nothing but Moves happened since.  It is kept after
\* the End of a pure gesture until the next operation that is no event.
TrackGesture(op) ==
  CASE op = "handleStart" ->
         [phase |-> "active", tool |-> currentTool, base |-> canvas,
          pure |-> ~isDrawing, moves |-> 0]
    [] op = "handleMove" ->
         IF isDrawing THEN [gest EXCEPT !.moves = Min(@ + 1, 2)] ELSE gest
    [] op = "handleEnd" ->
         IF ~isDrawing THEN gest
         ELSE IF gest.pure THEN [gest EXCEPT !.phase = "ended"] ELSE NoGesture
    [] OTHER ->
         IF gest.phase = "active" THEN [gest EXCEPT !.pure = FALSE] ELSE NoGesture

\* An operation that commits an action: it calls _saveState().
Commits(op) == op = "clear" \/ (op = "handleEnd" /\ isDrawing)

\* An operation that changes a stack: a commit, an undo() or redo() that
\* passes its guard, destroy().
ChangesHistory(op) ==
  \/ Commits(op)
  \/ op = "undo" /\ Len(undoStack) > 1
  \/ op = "redo" /\ Len(redoStack) > 0
  \/ op = "destroy"

\* lastOp keeps the operation, its argument (arg a number, str a string), and
\* what the gesture flag and the stack lengths were when it was called.
TrackIn(op, arg, str) ==
  /\ lastOp' = [op |-> op, arg |-> arg, str |-> str, active |-> isDrawing,
                undoLen |-> Len(undoStack), redoLen |-> Len(redoStack)]
  /\ gest' = TrackGesture(op)
  /\ cleared' = IF op = "clear" THEN canvas ELSE <<>>
  /\ commits' = IF Commits(op) THEN Min(commits + 1, maxUndoSteps) ELSE commits
  /\ destroyed' = (destroyed \/ op = "destroy")
  /\ resized' = IF op \in {"resize", "handleResize"} THEN TRUE
                ELSE IF ChangesHistory(op) THEN FALSE
                ELSE resized
  /\ UNCHANGED initial

Track(op, arg) == TrackIn(op, arg, "")

Tick ==
  /\ steps < MaxSteps
  /\ steps' = steps + 1

Free == phase = "free" /\ UNCHANGED scenarioVars

Constructor ==
  /\ \E w \in Widths : Constructed(w)
  /\ returned = Undefined
  /\ steps = 0
  /\ lastOp = [op |-> "constructor", arg |-> 0, str |-> "", active |-> FALSE,
               undoLen |-> 0, redoLen |-> 0]
  /\ gest = NoGesture
  /\ cleared = <<>>
  /\ commits = 0
  /\ initial = undoStack[1]
  /\ destroyed = FALSE
  /\ resized = FALSE
  /\ nActs = 0 /\ nCalls = 0 /\ ref = <<>>

Init == Constructor /\ phase = "free"

\* mousedown, touchstart
Start ==
  \E x \in Coords :
    /\ "bound _handleStart" \in listeners
    /\ Tick /\ Free
    /\ _handleStart(x)
    /\ returned' = Undefined
    /\ Track("handleStart", x)

\* mousemove, touchmove
Move ==
  \E x \in Coords :
    /\ "bound _handleMove" \in listeners
    /\ Tick /\ Free
    /\ _handleMove(x)
    /\ returned' = Undefined
    /\ Track("handleMove", x)

\* mouseup, mouseleave, touchend, touchcancel
End ==
  \E x \in Coords :
    /\ "bound _handleEnd" \in listeners
    /\ Tick /\ Free
    /\ _handleEnd(x)
    /\ returned' = Undefined
    /\ Track("handleEnd", x)

\* the window's resize event, the layout now being w wide
WindowResize ==
  \E w \in Widths :
    /\ "bound _handleResize" \in listeners
    /\ Tick /\ Free
    /\ _handleResize(w)
    /\ returned' = Undefined
    /\ Track("handleResize", w)

Resize ==
  \E w \in Widths :
    /\ Tick /\ Free
    /\ resize(w)
    /\ returned' = Undefined
    /\ Track("resize", w)

SetTool ==
  \E t \in ToolInputs :
    /\ Tick /\ Free
    /\ setTool(t)
    /\ returned' = Undefined
    /\ TrackIn("setTool", 0, t)

SetColor ==
  \E c \in ColorInputs :
    /\ Tick /\ Free
    /\ setColor(c)
    /\ returned' = Undefined
    /\ TrackIn("setColor", 0, c)

SetStrokeWidth ==
  \E w \in WidthInputs :
    /\ Tick /\ Free
    /\ setStrokeWidth(w)
    /\ returned' = Undefined
    /\ Track("setStrokeWidth", w)

Undo == Tick /\ Free /\ undo /\ Track("undo", 0)

Redo == Tick /\ Free /\ redo /\ Track("redo", 0)

Clear == Tick /\ Free /\ clear /\ returned' = Undefined /\ Track("clear", 0)

ExportImage == Tick /\ Free /\ exportImage /\ Track("exportImage", 0)

Destroy == Tick /\ Free /\ destroy /\ returned' = Undefined /\ Track("destroy", 0)

Next ==
  \/ Start \/ Move \/ End \/ WindowResize \/ Resize
  \/ SetTool \/ SetColor \/ SetStrokeWidth
  \/ Undo \/ Redo \/ Clear \/ ExportImage \/ Destroy

Spec == Init /\ [][Next]_vars

---------------------------------------------------------------------------
(* The undo/redo round trip: on a fresh engine, N committed actions (phase  *)
(* "act": complete gestures Start, Move.., End with any tool and colour,   *)
(* and clear()), then undo() N times and redo() N times (phase "calls").   *)
(* nActs is N, nCalls the calls made so far, ref the canvas content right  *)
(* after the Nth action.                                                   *)

InitRoundTrip == Constructor /\ phase = "act"

\* The actions of a round trip take at most MaxSteps + maxUndoSteps steps, so
\* that more actions than the stack holds, drawings among them, fit in.
Acting ==
  /\ phase = "act"
  /\ steps < MaxSteps + maxUndoSteps
  /\ steps' = steps + 1
  /\ UNCHANGED <<phase, nCalls>>

RtStart ==
  \E x \in Coords :
    /\ Acting /\ ~isDrawing
    /\ _handleStart(x)
    /\ returned' = Undefined
    /\ Track("handleStart", x)
    /\ UNCHANGED <<nActs, ref>>

RtMove ==
  \E x \in Coords :
    /\ Acting /\ isDrawing
    /\ _handleMove(x)
    /\ returned' = Undefined
    /\ Track("handleMove", x)
    /\ UNCHANGED <<nActs, ref>>

RtEnd ==
  \E x \in Coords :
    /\ Acting /\ isDrawing
    /\ _handleEnd(x)
    /\ returned' = Undefined
    /\ Track("handleEnd", x)
    /\ nActs' = nActs + 1
    /\ ref' = canvas'

RtClear ==
  /\ Acting /\ ~isDrawing
  /\ clear
  /\ returned' = Undefined
  /\ Track("clear", 0)
  /\ nActs' = nActs + 1
  /\ ref' = canvas'

RtSetTool ==
  \E t \in validTools :
    /\ Acting /\ ~isDrawing
    /\ setTool(t)
    /\ returned' = Undefined
    /\ TrackIn("setTool", 0, t)
    /\ UNCHANGED <<nActs, ref>>

RtSetColor ==
  \E c \in ValidColors :
    /\ Acting /\ ~isDrawing
    /\ setColor(c)
    /\ returned' = Undefined
    /\ TrackIn("setColor", 0, c)
    /\ UNCHANGED <<nActs, ref>>

RtUndo ==
  /\ phase \in {"act", "calls"}
  /\ ~isDrawing
  /\ nActs >= 1
  /\ nCalls < nActs
  /\ undo
  /\ Track("undo", 0)
  /\ phase' = "calls"
  /\ nCalls' = nCalls + 1
  /\ UNCHANGED <<steps, nActs, ref>>

RtRedo ==
  /\ phase = "calls"
  /\ nActs <= nCalls
  /\ nCalls < 2 * nActs
  /\ redo
  /\ Track("redo", 0)
  /\ nCalls' = nCalls + 1
  /\ UNCHANGED <<steps, phase, nActs, ref>>

NextRoundTrip ==
  \/ RtStart \/ RtMove \/ RtEnd \/ RtClear \/ RtSetTool \/ RtSetColor
  \/ RtUndo \/ RtRedo

SpecRoundTrip == InitRoundTrip /\ [][NextRoundTrip]_vars

RoundTripDone == phase = "calls" /\ nCalls = 2 * nActs

HasInk(pixels) == \E i \in 1..Len(pixels) : pixels[i] \in ValidColors

\* C1: after N >= 1 committed actions on a fresh engine, N calls of undo()
\* followed by N calls of redo() leave the canvas with the content it had
\* right after the Nth action, also when N exceeds maxUndoSteps and some of
\* the calls return false.
C1_UndoRedoSymmetry == RoundTripDone => canvas = ref

\* C1 witness: a finished round trip of more actions than the stack holds,
\* whose last redo() returned false, on a canvas that was drawn on.
C1_Witness ==
  /\ RoundTripDone
  /\ nActs > maxUndoSteps
  /\ returned = "false"
  /\ HasInk(canvas)

---------------------------------------------------------------------------
(* Properties of the engine under Spec. *)

\* The last operation committed an action.
Committed == lastOp.op = "clear" \/ (lastOp.op = "handleEnd" /\ lastOp.active)

\* `new` is `old` with one snapshot pushed, the oldest evicted if `old` was full.
Pushed(old, new, imageData) ==
  new = IF Len(old) < maxUndoSteps THEN Append(old, imageData)
        ELSE Append(Tail(old), imageData)

\* C2: every committed action (an End processed while a gesture is active,
\* or clear()) leaves the redo stack empty, and a redo() called right after a
\* committed action returns false and changes nothing.
C2_RedoInvalidation ==
  [][ /\ (Commits(lastOp'.op) => redoStack' = <<>>)
      /\ (Committed /\ lastOp'.op = "redo"
            => returned' = "false" /\ UNCHANGED engineVars) ]_vars

\* C2 witness: an action was committed while the redo stack held an undone
\* snapshot, and the redo stack is empty now.
C2_Witness ==
  /\ Committed
  /\ lastOp.redoLen > 0
  /\ redoStack = <<>>

\* C3: the undo stack never holds more than maxUndoSteps snapshots, redo()'s
\* pushes included, and a commit on a full stack evicts the bottom snapshot
\* and puts the new one on top, the others keeping their order.
C3_HistoryBound ==
  [][ /\ Len(undoStack) <= maxUndoSteps
      /\ Len(undoStack') <= maxUndoSteps
      /\ (Commits(lastOp'.op) /\ Len(undoStack) = maxUndoSteps
            => undoStack' = Append(Tail(undoStack), canvas'))
      /\ (Commits(lastOp'.op) /\ Len(undoStack) < maxUndoSteps
            => undoStack' = Append(undoStack, canvas')) ]_vars

\* C3 witness: a commit on a full stack has evicted the initial snapshot; the
\* bottom entry is a drawing.
C3_Witness ==
  /\ Committed
  /\ lastOp.undoLen = maxUndoSteps
  /\ Len(undoStack) = maxUndoSteps
  /\ HasInk(undoStack[1])

\* C4: while no action has been committed since construction, undo() returns
\* false and leaves the canvas and both stacks as they are.
C4_UndoFloor ==
  [][ (commits = 0 /\ lastOp'.op = "undo")
        => (returned' = "false" /\ UNCHANGED <<canvas, undoStack, redoStack>>) ]_vars

\* C4 witness: undo() has returned false on an engine with no committed
\* action, whose canvas carries the paint of a gesture still in progress.
C4_Witness ==
  /\ commits = 0
  /\ ~destroyed
  /\ lastOp.op = "undo"
  /\ returned = "false"
  /\ HasInk(canvas)
  /\ undoStack = <<initial>>

\* C5: from construction until destroy() is called the undo stack holds at
\* least one snapshot.
C5_StackNeverEmpty == ~destroyed => Len(undoStack) >= 1

\* C5 witness: after committed actions, undo() was refused on the last
\* snapshot left.
C5_Witness ==
  /\ ~destroyed
  /\ commits > 0
  /\ lastOp.op = "undo"
  /\ returned = "false"
  /\ Len(undoStack) = 1

ShapeCells(tool, x1, x2) ==
  IF tool = "circle"
    THEN {x1 - Abs(x2 - x1), x1 + Abs(x2 - x1)}
    ELSE Segment(x1, x2)

ShapeOn(base, tool, x1, x2, colour) ==
  [i \in 1..Len(base) |-> IF i \in ShapeCells(tool, x1, x2) THEN colour ELSE base[i]]

\* A gesture of Start and Moves only is in progress, begun with a shape tool.
PureShapeGesture == gest.phase = "active" /\ gest.pure /\ gest.tool # "freehand"

\* C7: in a shape-tool gesture of one Start, Moves and one End, neither the
\* Start nor a Move changes the undo stack, and the End pushes exactly one
\* snapshot, which is also the canvas content: the content at the Start with
\* only the shape from the Start point to the End point drawn on it.
C7_ShapeCommit ==
  [][ /\ (lastOp'.op = "handleStart" /\ currentTool # "freehand"
            => UNCHANGED undoStack)
      /\ (PureShapeGesture /\ lastOp'.op = "handleMove" => UNCHANGED undoStack)
      /\ (PureShapeGesture /\ lastOp'.op = "handleEnd"
            => LET final == ShapeOn(gest.base, gest.tool, startX, lastOp'.arg,
                                    ctx.strokeStyle)
               IN  canvas' = final /\ Pushed(undoStack, undoStack', final)) ]_vars

\* C7 witness: a rectangle gesture has ended after a Move whose preview
\* covered a cell the final rectangle does not; that cell is as it was at
\* the Start, and one snapshot was added.
C7_Witness ==
  /\ lastOp.op = "handleEnd"
  /\ lastOp.active
  /\ gest.phase = "ended"
  /\ gest.tool = "rectangle"
  /\ gest.moves >= 1
  /\ lastX \in 1..Len(canvas)
  /\ lastX \notin ShapeCells(gest.tool, startX, lastOp.arg)
  /\ canvas[lastX] = gest.base[lastX]
  /\ HasInk(canvas)
  /\ Len(undoStack) = lastOp.undoLen + 1

\* C8: a Move or an End that arrives while no gesture is active changes
\* nothing in the engine: canvas, scratch canvas, context, gesture state and
\* both stacks.
C8_IdleGuard ==
  [][ (~isDrawing /\ lastOp'.op \in {"handleMove", "handleEnd"})
        => UNCHANGED engineVars ]_vars

\* C8 witness: a second End has arrived after the End that closed a gesture,
\* and the undo stack has the one snapshot that gesture pushed.
C8_Witness ==
  /\ lastOp.op = "handleEnd"
  /\ ~lastOp.active
  /\ gest.phase = "ended"
  /\ commits = 1
  /\ Len(undoStack) = Min(2, maxUndoSteps)

\* C9 as claimed: the End of a freehand gesture of one Start and k >= 0 Moves
\* pushes exactly one snapshot, and an undo() after the gesture returns true
\* and brings the canvas back to its content before the Start.
C9_FreehandUndoUnit ==
  [][ /\ (~destroyed /\ gest.phase = "active" /\ gest.pure /\ gest.tool = "freehand"
          /\ lastOp'.op = "handleEnd"
            => Pushed(undoStack, undoStack', canvas'))
      /\ (~destroyed /\ gest.phase = "ended" /\ gest.tool = "freehand"
          /\ lastOp'.op = "undo"
            => returned' = "true" /\ canvas' = gest.base) ]_vars

\* C10 as claimed: clear() fills the canvas with the background colour and
\* pushes exactly one snapshot, and an undo() right after it returns true and
\* brings back the canvas content from just before the clear().
C10_ClearUndoable ==
  [][ /\ (~destroyed /\ lastOp'.op = "clear"
            => /\ canvas' = Blank(Len(canvas), Background)
               /\ Pushed(undoStack, undoStack', canvas'))
      /\ (~destroyed /\ lastOp.op = "clear" /\ lastOp'.op = "undo"
            => returned' = "true" /\ canvas' = cleared) ]_vars

---------------------------------------------------------------------------
(* Setters, export, teardown and resize. *)

\* C11: setTool(t) returns without raising; with t one of the four tools it
\* makes t the current tool, with any other t it leaves the current tool as it
\* is; in both cases colour, width, gesture state, canvas, scratch canvas,
\* context, stacks and listeners are unchanged.
C11_SetToolValidation ==
  [][ lastOp'.op = "setTool"
        => /\ returned' = Undefined
           /\ currentTool' = IF lastOp'.str \in {"freehand", "rectangle", "circle", "line"}
                               THEN lastOp'.str ELSE currentTool
           /\ UNCHANGED <<canvas, tempCanvas, ctx, currentColor, strokeWidth,
                          isDrawing, startX, lastX, undoStack, redoStack,
                          listeners>> ]_vars

\* C11 witness: setTool('hexagon') was called in the middle of a gesture with
\* the circle tool selected, and the circle tool is still selected.
C11_Witness ==
  /\ lastOp.op = "setTool"
  /\ lastOp.str = "hexagon"
  /\ lastOp.active
  /\ isDrawing
  /\ currentTool = "circle"

\* C12 as claimed: setStrokeWidth(w) stores min(max(w, 1), 50) for every input
\* w, not-a-number included, so the stroke width is always within 1..50.
C12_StrokeWidthClamped ==
  [][ /\ strokeWidth' \in 1..50
      /\ (lastOp'.op = "setStrokeWidth" /\ lastOp'.arg # NaN
            => strokeWidth' = Min(Max(lastOp'.arg, 1), 50)) ]_vars

\* C13: exportImage() changes nothing in the engine, whether a gesture is in
\* progress or not and whether the encoding succeeds or throws: canvas,
\* scratch canvas, context, tool settings, gesture state and both stacks stay.
C13_ExportPureRead ==
  [][ lastOp'.op = "exportImage" => UNCHANGED engineVars ]_vars

\* C13 witness: the encoding failed in the middle of a gesture that has
\* painted, with an undone snapshot on the redo stack.
C13_Witness ==
  /\ lastOp.op = "exportImage"
  /\ returned = "throws"
  /\ isDrawing
  /\ HasInk(canvas)
  /\ redoStack # <<>>

\* C14 as claimed: once destroy() has been called no listener of the engine is
\* attached any more, no Start, Move, End or window resize event changes the
\* gesture state, the canvas or a stack, and both stacks stay empty under
\* these events.
C14_TeardownDetaches ==
  [][ /\ (destroyed' => listeners' = {})
      /\ (destroyed /\ lastOp'.op \in {"handleStart", "handleMove", "handleEnd",
                                        "handleResize"}
            => /\ UNCHANGED <<isDrawing, startX, lastX, canvas, undoStack, redoStack>>
               /\ undoStack' = <<>> /\ redoStack' = <<>>) ]_vars

\* C15 as claimed: resize(w, h) and the auto-resize keep the pixels inside both
\* the old and the new bounds, show the background colour in the new margin,
\* give the scratch canvas the new width and leave both stacks unchanged.
C15_ResizePreserves ==
  [][ lastOp'.op \in {"resize", "handleResize"}
        => /\ Len(canvas') = lastOp'.arg
           /\ \A i \in 1..Len(canvas') :
                 canvas'[i] = IF i <= Len(canvas) THEN canvas[i] ELSE Background
           /\ Len(tempCanvas') = Len(canvas')
           /\ UNCHANGED <<undoStack, redoStack>> ]_vars

\* C16: undo() and redo() return a boolean and never raise; undo() returns
\* false exactly when the undo stack holds at most one snapshot, redo()
\* returns false exactly when the redo stack is empty, and a call that
\* returns false leaves the canvas and both stacks as they were.
C16_BooleanOutcome ==
  [][ /\ (lastOp'.op = "undo"
            => /\ returned' \in {"true", "false"}
               /\ (returned' = "false") = (Len(undoStack) <= 1))
      /\ (lastOp'.op = "redo"
            => /\ returned' \in {"true", "false"}
               /\ (returned' = "false") = (Len(redoStack) = 0))
      /\ (lastOp'.op \in {"undo", "redo"} /\ returned' = "false"
            => UNCHANGED <<canvas, undoStack, redoStack>>) ]_vars

\* C16 witness: redo() has returned true on a redo stack of one snapshot and
\* brought a drawing back.
C16_Witness ==
  /\ lastOp.op = "redo"
  /\ returned = "true"
  /\ lastOp.redoLen = 1
  /\ redoStack = <<>>
  /\ Len(undoStack) = lastOp.undoLen + 1
  /\ HasInk(canvas)

C18_ScratchIsStartContent ==
  [][ (isDrawing /\ currentTool # "freehand" /\ gest.phase = "active"
       /\ lastOp'.op \in {"handleMove", "handleEnd"})
        => drawImage(clearRect(canvas), tempCanvas) = gest.base ]_vars

\* C19: a step changes the undo stack or the redo stack only if it is an End
\* processed while a gesture is active, clear(), an undo() or redo() that
\* returns true, or destroy(); Start, Move, setTool, setColor,
\* setStrokeWidth, resize and the window resize leave both stacks unchanged.
C19_StackFrame ==
  [][ /\ (<<undoStack, redoStack>>' # <<undoStack, redoStack>>
            => \/ lastOp'.op = "handleEnd" /\ isDrawing
               \/ lastOp'.op = "clear"
               \/ lastOp'.op \in {"undo", "redo"} /\ returned' = "true"
               \/ lastOp'.op = "destroy")
      /\ (lastOp'.op \in {"handleStart", "handleMove", "setTool", "setColor",
                          "setStrokeWidth", "resize", "handleResize"}
            => UNCHANGED <<undoStack, redoStack>>) ]_vars

\* C19 witness: a Move of an active gesture has painted the canvas while an
\* undone snapshot is on the redo stack, and both stacks have the lengths
\* they had before the Move.
C19_Witness ==
  /\ lastOp.op = "handleMove"
  /\ lastOp.active
  /\ HasInk(canvas)
  /\ redoStack # <<>>
  /\ Len(redoStack) = lastOp.redoLen
  /\ Len(undoStack) = lastOp.undoLen
  /\ canvas # undoStack[Len(undoStack)]

\* C20 as claimed: in every state after construction the context's stroke
\* style is the engine's currentColor and its line width is the engine's
\* strokeWidth.
C20_BackendMatchesSettings ==
  /\ ctx.strokeStyle = currentColor
  /\ ctx.lineWidth = strokeWidth

---------------------------------------------------------------------------
(* Invariants of the two stacks. *)

\* C21 as claimed: until destroy(), whenever no gesture is active and the
\* canvas has not been resized since a stack last changed, the canvas content
\* is the snapshot on top of the undo stack.
C21_SurfaceIsTopSnapshot ==
  (~destroyed /\ ~isDrawing /\ ~resized)
    => (undoStack # <<>> /\ canvas = undoStack[Len(undoStack)])

\* The snapshots of a sequence in the opposite order.
Reversed(seq) == [i \in 1..Len(seq) |-> seq[Len(seq) + 1 - i]]

\* The undo stack from bottom to top followed by the redo stack from top to
\* bottom.
Timeline(undos, redos) == undos \o Reversed(redos)

\* C22: an undo() or redo() that returns true moves exactly one snapshot from
\* the top of one stack to the top of the other, so no undo() or redo()
\* changes the sequence made of the undo stack (bottom to top) followed by
\* the redo stack (top to bottom); and the two stacks together never hold
\* more than maxUndoSteps snapshots.
C22_TimelinePreserved ==
  [][ /\ (lastOp'.op \in {"undo", "redo"}
            => Timeline(undoStack', redoStack') = Timeline(undoStack, redoStack))
      /\ (lastOp'.op = "undo" /\ returned' = "true"
            => /\ Len(undoStack') = Len(undoStack) - 1
               /\ redoStack' = Append(redoStack, undoStack[Len(undoStack)]))
      /\ (lastOp'.op = "redo" /\ returned' = "true"
            => /\ Len(redoStack') = Len(redoStack) - 1
               /\ undoStack' = Append(undoStack, redoStack[Len(redoStack)]))
      /\ Len(undoStack) + Len(redoStack) <= maxUndoSteps
      /\ Len(undoStack') + Len(redoStack') <= maxUndoSteps ]_vars

\* C22 witness: redo() has moved a snapshot back onto the undo stack while
\* another undone snapshot stays on the redo stack, the two stacks together
\* holding maxUndoSteps snapshots.
C22_Witness ==
  /\ lastOp.op = "redo"
  /\ returned = "true"
  /\ redoStack # <<>>
  /\ Len(undoStack) = lastOp.undoLen + 1
  /\ Len(undoStack) + Len(redoStack) = maxUndoSteps

=============================================================================
